---- MODULE Spec2Model ----
(***************************************************************************)
(* State-machine model of crater's experiment module, src/src/ex.rs:       *)
(* the experiment record and its validation, corpus selection, the         *)
(* persisted experiment trees (define / load / copy / delete) and the      *)
(* working-directory isolation used by the per-crate steps.                *)
(*                                                                         *)
(* Text is modelled as sequences of character codes (naturals), so that    *)
(* suffix tests and the derived ordering of crates are computed and not    *)
(* assumed.  A directory is [exists, files], files a function from file    *)
(* names to contents.  Filesystem calls take the outcome the environment   *)
(* gives them ("ok", "failed", "partial") as an input.                     *)
(***************************************************************************)
EXTENDS Naturals, Sequences, FiniteSets, TLC

VARIABLES
    disk,      \* EXPERIMENT_DIR: experiment name -> directory tree
    last,      \* the most recent call on the store, with its result
    call,      \* a call of validate or of a selector: the function and its input
    ret,       \* what that call returned, once it has
    source,    \* canonical sources: (experiment, toolchain, crate) -> directory
    work,      \* TEST_SOURCE_DIR: (experiment, toolchain, crate) -> work directory
    wcall,     \* the most recent call on a crate's directories, with its result
    engine,    \* the run over the task grid: tasks left, outcomes recorded
    target     \* toolchain::ex_target_dir: experiment name -> target directory

storeVars == <<disk, last>>
fnVars == <<call, ret>>
workVars == <<source, work, wcall>>
vars == <<disk, last, call, ret, source, work, wcall, engine, target>>

\* What each part of the model leaves alone.
StoreFrame == UNCHANGED <<call, ret, source, work, wcall, engine, target>>
FnFrame == UNCHANGED <<disk, last, source, work, wcall, engine, target>>
WorkFrame == UNCHANGED <<disk, last, call, ret, engine, target>>
EngineFrame == UNCHANGED <<disk, last, call, ret, wcall, target>>

(***************************************************************************)
(* Bounds of the model.                                                    *)
(***************************************************************************)
MaxSeed == 2
MaxCorpus == 21

\* The longest popularity list drawn (top_100 keeps the first 100).
MaxPop == 101

\* Calls of with_work_crate in flight at once.
MaxThreads == 2

(***************************************************************************)
(* Result<T>: Ok(v), Err(msg); a panic unwinds past the caller.            *)
(***************************************************************************)
Ok(v) == [kind |-> "Ok", val |-> v]
Err(m) == [kind |-> "Err", msg |-> m]
Panic(m) == [kind |-> "Panic", msg |-> m]
Unit == <<>>

None == [some |-> FALSE]
Some(s) == [some |-> TRUE, val |-> s]

(***************************************************************************)
(* string_enum! ExMode, ExCrateSelect, ExCapLints: variant and its string. *)
(***************************************************************************)
ExMode ==
    {"BuildAndTest", "BuildOnly", "CheckOnly", "UnstableFeatures"}

ExModeStr(m) ==
    CASE m = "BuildAndTest" -> "build-and-test"
      [] m = "BuildOnly" -> "build-only"
      [] m = "CheckOnly" -> "check-only"
      [] m = "UnstableFeatures" -> "unstable-features"

ExCrateSelect ==
    {"Full", "Demo", "SmallRandom", "Top100"}

ExCapLints ==
    {"Allow", "Warn", "Deny", "Forbid"}

ExCapLintsStr(c) ==
    CASE c = "Allow" -> "allow"
      [] c = "Warn" -> "warn"
      [] c = "Deny" -> "deny"
      [] c = "Forbid" -> "forbid"

(***************************************************************************)
(* Toolchains: "stable", "beta", "beta+rustflags", ... as parsed.          *)
(***************************************************************************)
Toolchain(src, rf) == [source |-> src, enable_rustflags |-> rf]

Stable == Toolchain("stable", FALSE)
Beta == Toolchain("beta", FALSE)
StableRf == Toolchain("stable", TRUE)
BetaRf == Toolchain("beta", TRUE)

Toolchains == {Stable, Beta, StableRf, BetaRf, Toolchain("nightly", FALSE)}

(***************************************************************************)
(* Crates: Crate::Registry(RegistryCrate{name, version}) and               *)
(* Crate::GitHub(GitHubRepo{org, name}).                                   *)
(***************************************************************************)
Registry(n, v) == [kind |-> "Registry", name |-> n, version |-> v]
GitHub(o, n) == [kind |-> "GitHub", org |-> o, name |-> n]

\* repo.url(): the host prefix, then org "/" name.
url(repo) == <<104, 47>> \o repo.org \o <<47>> \o repo.name

\* str::ends_with
EndsWith(s, suffix) ==
    /\ Len(suffix) <= Len(s)
    /\ SubSeq(s, Len(s) - Len(suffix) + 1, Len(s)) = suffix

\* Lexicographic order of two texts.
RECURSIVE LexLess(_, _)
LexLess(s, t) ==
    IF t = <<>> THEN FALSE
    ELSE IF s = <<>> THEN TRUE
    ELSE IF Head(s) # Head(t) THEN Head(s) < Head(t)
    ELSE LexLess(Tail(s), Tail(t))

\* Ord for Crate: Registry before GitHub, then field by field.
CrateLess(a, b) ==
    IF a.kind # b.kind THEN a.kind = "Registry"
    ELSE IF a.kind = "Registry"
    THEN IF a.name # b.name THEN LexLess(a.name, b.name)
         ELSE LexLess(a.version, b.version)
    ELSE IF a.org # b.org THEN LexLess(a.org, b.org)
         ELSE LexLess(a.name, b.name)

RECURSIVE Insert(_, _)
Insert(c, sorted) ==
    IF sorted = <<>> THEN <<c>>
    ELSE IF CrateLess(Head(sorted), c) THEN <<Head(sorted)>> \o Insert(c, Tail(sorted))
    ELSE <<c>> \o sorted

\* crates.sort()
RECURSIVE Sort(_)
Sort(s) ==
    IF s = <<>> THEN <<>> ELSE Insert(Head(s), Sort(Tail(s)))

\* Vec::truncate
Truncate(s, n) ==
    IF Len(s) <= n THEN s ELSE SubSeq(s, 1, n)

Swap(s, i, j) ==
    [k \in DOMAIN s |-> IF k = i THEN s[j] ELSE IF k = j THEN s[i] ELSE s[k]]

\* rng.gen_range(0, k) of the generator seeded with `seed`.
GenRange(seed, k) == (seed * (k + 1) + (seed \div 2)) % k

\* rng.shuffle(&mut crates): for k = len down to 2, swap k-1 with a draw below k.
RECURSIVE ShuffleFrom(_, _, _)
ShuffleFrom(s, k, seed) ==
    IF k < 2 THEN s
    ELSE ShuffleFrom(Swap(s, k, GenRange(seed, k) + 1), k - 1, seed)

Shuffle(s, seed) == ShuffleFrom(s, Len(s), seed)

(***************************************************************************)
(* Corpus selection.  `env` is what the collaborators return:              *)
(* env.lists = Ok(list) | Err, env.pop likewise, env.config.demo_crates,   *)
(* env.seed for thread_rng.                                                *)
(***************************************************************************)
COUNT == 20

\* The .filter(..) of demo_list over the corpus, `names` being the HashSet.
RECURSIVE DemoFilter(_, _, _)
DemoFilter(all, names, repos) ==
    IF all = <<>> THEN <<>>
    ELSE LET c == Head(all) IN
         IF c.kind = "Registry"
         THEN IF c.name \in names
              THEN <<c>> \o DemoFilter(Tail(all), names \ {c.name}, repos)
              ELSE DemoFilter(Tail(all), names, repos)
         ELSE IF \E i \in DOMAIN repos : EndsWith(url(c), repos[i])
              THEN <<c>> \o DemoFilter(Tail(all), names, repos)
              ELSE DemoFilter(Tail(all), names, repos)

demo_list(env) ==
    LET crates == {env.config.crates[i] : i \in DOMAIN env.config.crates}
        repos == env.config.github_repos
        expected_len == Cardinality(crates) + Len(repos)
    IN  IF env.lists.kind # "Ok" THEN env.lists
        ELSE LET result == DemoFilter(env.lists.val, crates, repos) IN
             IF Len(result) # expected_len
             THEN Panic("assertion failed: result.len() == expected_len")
             ELSE Ok(result)

\* small_random without the final sort.
small_random_unsorted(env) ==
    IF env.lists.kind # "Ok" THEN env.lists
    ELSE Ok(Truncate(Shuffle(env.lists.val, env.seed), COUNT))

small_random(env) ==
    IF env.lists.kind # "Ok" THEN env.lists
    ELSE Ok(Sort(Truncate(Shuffle(env.lists.val, env.seed), COUNT)))

\* top_100 refusing a list shorter than 100.
top_100_strict(env) ==
    IF env.pop.kind # "Ok" THEN env.pop
    ELSE IF Len(env.pop.val) < 100 THEN Err("popularity list too short")
    ELSE Ok(Truncate(env.pop.val, 100))

top_100(env) ==
    IF env.pop.kind # "Ok" THEN env.pop
    ELSE Ok(Truncate(env.pop.val, 100))

get_crates(crates, env) ==
    CASE crates = "Full" -> env.lists
      [] crates = "Demo" -> demo_list(env)
      [] crates = "SmallRandom" -> small_random(env)
      [] crates = "Top100" -> top_100(env)

(***************************************************************************)
(* The experiment record and its validation.                               *)
(***************************************************************************)
Experiment(name, crates, toolchains, mode, cap_lints, rustflags) ==
    [name |-> name, crates |-> crates, toolchains |-> toolchains,
     mode |-> mode, cap_lints |-> cap_lints, rustflags |-> rustflags]

\* validate without its last rule.
validate_two_rules(ex) ==
    IF ex.toolchains[1] = ex.toolchains[2]
    THEN Err("reusing the same toolchain isn't supported")
    ELSE IF /\ ex.rustflags.some
            /\ ~ex.toolchains[1].enable_rustflags
            /\ ~ex.toolchains[2].enable_rustflags
    THEN Err("rustflags are present but no toolchain is using them")
    ELSE Ok(Unit)

validate(ex) ==
    IF ex.toolchains[1] = ex.toolchains[2]
    THEN Err("reusing the same toolchain isn't supported")
    ELSE IF /\ ex.rustflags.some
            /\ ~ex.toolchains[1].enable_rustflags
            /\ ~ex.toolchains[2].enable_rustflags
    THEN Err("rustflags are present but no toolchain is using them")
    ELSE IF /\ ~ex.rustflags.some
            /\ (ex.toolchains[1].enable_rustflags \/ ex.toolchains[2].enable_rustflags)
    THEN Err("a toolchain is enabling rustflags but none are set")
    ELSE Ok(Unit)

(***************************************************************************)
(* The filesystem collaborators (file::, util::, std::fs).  `io` is the    *)
(* outcome the environment gives the call.                                 *)
(***************************************************************************)
NoDir == [exists |-> FALSE]
Dir(files) == [exists |-> TRUE, files |-> files]
NoFiles == [n \in {} |-> [kind |-> "data"]]

\* util::remove_dir_all: gone; or an error with the tree left whole, or
\* left emptied (its entries removed, the directory itself not).
remove_dir_all(dir, io) ==
    IF ~dir.exists THEN [res |-> Err("remove_dir_all"), dir |-> dir]
    ELSE IF io = "ok" THEN [res |-> Ok(Unit), dir |-> NoDir]
    ELSE IF io = "failed" THEN [res |-> Err("remove_dir_all"), dir |-> dir]
    ELSE [res |-> Err("remove_dir_all"), dir |-> Dir(NoFiles)]

\* util::copy_dir: dest becomes a copy of src; or an error with dest left
\* as it was, or left created and empty.
copy_dir(src, dest, io) ==
    IF io = "failed" THEN [res |-> Err("copy_dir"), dest |-> dest]
    ELSE IF io = "ok" /\ src.exists THEN [res |-> Ok(Unit), dest |-> Dir(src.files)]
    ELSE [res |-> Err("copy_dir"), dest |-> Dir(NoFiles)]

\* fs::create_dir_all
create_dir_all(dir, io) ==
    IF io # "ok" THEN [res |-> Err("create_dir_all"), dir |-> dir]
    ELSE [res |-> Ok(Unit), dir |-> IF dir.exists THEN dir ELSE Dir(NoFiles)]

\* file::write_string: written; or an error with the file untouched, or
\* left truncated.
write_string(dir, file, text, io) ==
    IF ~dir.exists \/ io = "failed" THEN [res |-> Err("write_string"), dir |-> dir]
    ELSE IF io = "ok"
    THEN [res |-> Ok(Unit), dir |-> Dir((file :> [kind |-> "text", text |-> text]) @@ dir.files)]
    ELSE [res |-> Err("write_string"),
          dir |-> Dir((file :> [kind |-> "truncated"]) @@ dir.files)]

\* file::read_string
read_string(dir, file) ==
    IF dir.exists /\ file \in DOMAIN dir.files
    THEN Ok(dir.files[file])
    ELSE Err("NotFound")

(***************************************************************************)
(* serde_json::to_string / from_str of Experiment: a JSON object of the    *)
(* six fields; the enums by their string, Option as null or a string,      *)
(* a crate as an object tagged by its variant.                             *)
(***************************************************************************)
CrateToJson(c) ==
    IF c.kind = "Registry"
    THEN [tag |-> "Registry", fields |-> <<c.name, c.version>>]
    ELSE [tag |-> "GitHub", fields |-> <<c.org, c.name>>]

CrateFromJson(j) ==
    IF j.tag = "Registry" THEN Registry(j.fields[1], j.fields[2])
    ELSE GitHub(j.fields[1], j.fields[2])

ToolchainToJson(tc) == <<tc.source, tc.enable_rustflags>>

ToolchainFromJson(j) == Toolchain(j[1], j[2])

OptionToJson(o) ==
    IF o.some THEN [t |-> "string", v |-> o.val] ELSE [t |-> "null"]

OptionFromJson(j) ==
    IF j.t = "null" THEN None ELSE Some(j.v)

\* to_string with the rustflags field skipped (written as null).
to_string_skip_rustflags(ex) ==
    [name |-> ex.name,
     crates |-> [i \in DOMAIN ex.crates |-> CrateToJson(ex.crates[i])],
     toolchains |-> [i \in DOMAIN ex.toolchains |-> ToolchainToJson(ex.toolchains[i])],
     mode |-> ExModeStr(ex.mode),
     cap_lints |-> ExCapLintsStr(ex.cap_lints),
     rustflags |-> [t |-> "null"]]

to_string(ex) ==
    [name |-> ex.name,
     crates |-> [i \in DOMAIN ex.crates |-> CrateToJson(ex.crates[i])],
     toolchains |-> [i \in DOMAIN ex.toolchains |-> ToolchainToJson(ex.toolchains[i])],
     mode |-> ExModeStr(ex.mode),
     cap_lints |-> ExCapLintsStr(ex.cap_lints),
     rustflags |-> OptionToJson(ex.rustflags)]

from_str(file) ==
    IF file.kind # "text" THEN Err("Corrupt")
    ELSE LET j == file.text IN
         IF \/ ~\E m \in ExMode : ExModeStr(m) = j.mode
            \/ ~\E c \in ExCapLints : ExCapLintsStr(c) = j.cap_lints
         THEN Err("Corrupt")
         ELSE Ok(Experiment(
                 j.name,
                 [i \in DOMAIN j.crates |-> CrateFromJson(j.crates[i])],
                 [i \in DOMAIN j.toolchains |-> ToolchainFromJson(j.toolchains[i])],
                 CHOOSE m \in ExMode : ExModeStr(m) = j.mode,
                 CHOOSE c \in ExCapLints : ExCapLintsStr(c) = j.cap_lints,
                 OptionFromJson(j.rustflags)))

(***************************************************************************)
(* The persisted experiments: ex_dir(name) = EXPERIMENT_DIR/name, holding  *)
(* config.json and whatever else is written under it.  Each operation      *)
(* maps the disk `d` to [res, disk].                                       *)
(***************************************************************************)
ConfigFile == "config.json"

NoEx == [name |-> "<none>"]

\* delete without the exists() test.
delete_unchecked(d, ex_name, env) ==
    LET r == remove_dir_all(d[ex_name], env.rm) IN
    [res |-> r.res, disk |-> [d EXCEPT ![ex_name] = r.dir]]

delete(d, ex_name, env) ==
    IF d[ex_name].exists
    THEN LET r == remove_dir_all(d[ex_name], env.rm) IN
         [res |-> r.res, disk |-> [d EXCEPT ![ex_name] = r.dir]]
    ELSE [res |-> Ok(Unit), disk |-> d]

define_(d, ex_name, toolchains, crates, mode, cap_lints, rustflags, env) ==
    LET ex == Experiment(ex_name, crates, toolchains, mode, cap_lints, rustflags)
        v == validate(ex)
        mk == create_dir_all(d[ex.name], env.mkdir)
        wr == write_string(mk.dir, ConfigFile, to_string(ex), env.write)
    IN  IF v.kind # "Ok" THEN [res |-> v, disk |-> d]
        ELSE IF mk.res.kind # "Ok" THEN [res |-> mk.res, disk |-> d]
        ELSE [res |-> wr.res, disk |-> [d EXCEPT ![ex_name] = wr.dir]]

\* define without the delete of the stale experiment.
define_keep_stale(d, opts, env) ==
    LET crates == get_crates(opts.crates, env) IN
    IF crates.kind # "Ok" THEN [res |-> crates, disk |-> d]
    ELSE define_(d, opts.name, opts.toolchains, crates.val,
                 opts.mode, opts.cap_lints, opts.rustflags, env)

define(d, opts, env) ==
    LET del == delete(d, opts.name, env)
        crates == get_crates(opts.crates, env)
    IN  IF del.res.kind # "Ok" THEN del
        ELSE IF crates.kind # "Ok" THEN [res |-> crates, disk |-> del.disk]
        ELSE define_(del.disk, opts.name, opts.toolchains, crates.val,
                     opts.mode, opts.cap_lints, opts.rustflags, env)

load(d, ex_name) ==
    LET config == read_string(d[ex_name], ConfigFile) IN
    IF config.kind # "Ok" THEN config ELSE from_str(config.val)

\* copy without the test that the destination is free.
copy_overwrite(d, ex1_name, ex2_name, env) ==
    IF ~d[ex1_name].exists
    THEN [res |-> Err("experiment is not defined"), disk |-> d]
    ELSE LET r == copy_dir(d[ex1_name], d[ex2_name], env.copy) IN
         [res |-> r.res, disk |-> [d EXCEPT ![ex2_name] = r.dest]]

copy(d, ex1_name, ex2_name, env) ==
    IF ~d[ex1_name].exists
    THEN [res |-> Err("experiment is not defined"), disk |-> d]
    ELSE IF d[ex2_name].exists
    THEN [res |-> Err("experiment is already defined"), disk |-> d]
    ELSE LET r == copy_dir(d[ex1_name], d[ex2_name], env.copy) IN
         [res |-> r.res, disk |-> [d EXCEPT ![ex2_name] = r.dest]]

(***************************************************************************)
(* The store as a state machine: one action per public operation.          *)
(***************************************************************************)
ExNames == {"e1", "e2"}

CrateA == Registry(<<97>>, <<49>>)
CrateB == Registry(<<98>>, <<49>>)
CrateC == Registry(<<99>>, <<50>>)
RepoG == GitHub(<<111>>, <<114>>)

\* What lists::read_all_lists and lists::PopList::read return here, and the
\* two demo configurations: one in step with the corpus, one naming a crate
\* the corpus does not hold.
StoreLists == <<CrateB, CrateA, RepoG, CrateC>>
StorePopList == <<CrateC, CrateB>>
ConfigGood == [crates |-> << <<97>>, <<99>> >>, github_repos |-> << <<111, 47, 114>> >>]
ConfigStale == [crates |-> << <<97>>, <<100>> >>, github_repos |-> << <<111, 47, 114>> >>]

EnvOk(lists, pop, config, seed) ==
    [rm |-> "ok", lists |-> Ok(lists), pop |-> Ok(pop), mkdir |-> "ok",
     write |-> "ok", copy |-> "ok", seed |-> seed, config |-> config]

StoreEnvOk == EnvOk(StoreLists, StorePopList, ConfigGood, 0)

\* The inputs of define (ExOpts without the name): a base, and the base
\* with its toolchains, its selection or its mode changed.
Opts(tcs, sel, mode, cap_lints, rf) ==
    [toolchains |-> tcs, crates |-> sel, mode |-> mode, cap_lints |-> cap_lints,
     rustflags |-> rf]

BaseOpts == Opts(<<Stable, Beta>>, "Full", "BuildAndTest", "Forbid", None)

StoreOpts ==
    {BaseOpts,
     [BaseOpts EXCEPT !.toolchains = <<Stable, BetaRf>>, !.rustflags = Some("-Zfoo")],
     [BaseOpts EXCEPT !.toolchains = <<Stable, Stable>>],
     [BaseOpts EXCEPT !.rustflags = Some("-Zfoo")],
     [BaseOpts EXCEPT !.toolchains = <<Stable, BetaRf>>]}
    \cup {[BaseOpts EXCEPT !.crates = sel] : sel \in ExCrateSelect}

\* The environments the filesystem calls of an operation can meet.
RmEnvs == {[StoreEnvOk EXCEPT !.rm = io] : io \in {"ok", "failed", "partial"}}
CopyEnvs == {[StoreEnvOk EXCEPT !.copy = io] : io \in {"ok", "failed", "partial"}}
WriteEnvs ==
    {[StoreEnvOk EXCEPT !.mkdir = "failed"]}
    \cup {[StoreEnvOk EXCEPT !.write = io] : io \in {"ok", "failed", "partial"}}

\* define's cases: every input where the collaborators succeed, the
\* selections under the environments that change them, and the base input
\* under every failure of a collaborator.
DefineCases ==
    {<<o, StoreEnvOk>> : o \in StoreOpts}
    \cup {<<[BaseOpts EXCEPT !.crates = "Demo"],
            EnvOk(StoreLists, StorePopList, ConfigStale, 0)>>}
    \cup {<<[BaseOpts EXCEPT !.crates = "SmallRandom"],
            EnvOk(StoreLists, StorePopList, ConfigGood, seed)>> : seed \in 0..MaxSeed}
    \cup {<<[BaseOpts EXCEPT !.crates = sel],
            [StoreEnvOk EXCEPT !.lists = Err("read_all_lists")]>> : sel \in {"Full", "Demo"}}
    \cup {<<BaseOpts, env>> : env \in RmEnvs \cup WriteEnvs}

\* define_'s cases: the crate list is an input of its own.
DefineRawCases ==
    {<<[BaseOpts EXCEPT !.crates = <<>>], env>> : env \in WriteEnvs}
    \cup {<<[BaseOpts EXCEPT !.crates = <<RepoG, CrateA>>, !.mode = "CheckOnly",
                             !.cap_lints = "Warn"], StoreEnvOk>>,
          <<[BaseOpts EXCEPT !.crates = <<>>, !.rustflags = Some("")], StoreEnvOk>>}

\* The record of a call: its arguments and result, whether the trees it
\* names existed when it was made, and the outcome `io` its filesystem
\* call met.
Call(op, name, name2, res, ex, io) ==
    [op |-> op, name |-> name, name2 |-> name2, res |-> res, ex |-> ex, io |-> io,
     existed |-> disk[name].exists, existed2 |-> disk[name2].exists]

StoreInit ==
    /\ disk = [n \in ExNames |-> NoDir]
    /\ target = [n \in ExNames |-> NoDir]
    /\ last = [op |-> "none", name |-> "<none>", name2 |-> "<none>", res |-> Ok(Unit),
               ex |-> NoEx, io |-> "ok", existed |-> FALSE, existed2 |-> FALSE]

Define(name) ==
    \E case \in DefineCases :
        LET o == case[1]
            env == case[2]
            opts == [name |-> name, toolchains |-> o.toolchains, mode |-> o.mode,
                     crates |-> o.crates, cap_lints |-> o.cap_lints,
                     rustflags |-> o.rustflags]
            r == define(disk, opts, env)
            gc == get_crates(o.crates, env)
            ex == IF gc.kind = "Ok"
                  THEN Experiment(name, gc.val, o.toolchains, o.mode, o.cap_lints,
                                  o.rustflags)
                  ELSE NoEx
        IN  /\ disk' = r.disk
            /\ last' = Call("define", name, name, r.res, ex, "ok")
            /\ StoreFrame

DefineRaw(name) ==
    \E case \in DefineRawCases :
        LET o == case[1]
            env == case[2]
            r == define_(disk, name, o.toolchains, o.crates, o.mode, o.cap_lints,
                         o.rustflags, env)
        IN  /\ disk' = r.disk
            /\ last' = Call("define_", name, name, r.res,
                            Experiment(name, o.crates, o.toolchains, o.mode,
                                       o.cap_lints, o.rustflags), "ok")
            /\ StoreFrame

Load(name) ==
    /\ last' = Call("load", name, name, load(disk, name), NoEx, "ok")
    /\ UNCHANGED disk
    /\ StoreFrame

Delete(name) ==
    \E env \in RmEnvs :
        LET r == delete(disk, name, env) IN
        /\ disk' = r.disk
        /\ last' = Call("delete", name, name, r.res, NoEx, env.rm)
        /\ StoreFrame

Copy(ex1_name, ex2_name) ==
    \E env \in CopyEnvs :
        LET r == copy(disk, ex1_name, ex2_name, env) IN
        /\ disk' = r.disk
        /\ last' = Call("copy", ex1_name, ex2_name, r.res, NoEx, env.copy)
        /\ StoreFrame

\* Whatever else is written under ex_dir(name) once the experiment is
\* populated (results, recorded shas).
Populate(name) ==
    /\ disk[name].exists
    /\ disk' = [disk EXCEPT ![name] =
                   Dir(("results" :> [kind |-> "data"]) @@ disk[name].files)]
    /\ last' = Call("populate", name, name, Ok(Unit), NoEx, "ok")
    /\ StoreFrame

\* No call of validate or of a selector is in progress.
FnIdle ==
    /\ call = [fn |-> "none"]
    /\ ret = [done |-> FALSE]

\* No crate has been extracted and no run has started.
WorkIdle ==
    /\ source = <<>>
    /\ work = <<>>
    /\ wcall = [op |-> "none"]

EngineIdle == engine = [status |-> "idle"]

Init == StoreInit /\ FnIdle /\ WorkIdle /\ EngineIdle

Next ==
    \/ \E name \in ExNames : Define(name)
    \/ \E name \in ExNames : DefineRaw(name)
    \/ \E name \in ExNames : Load(name)
    \/ \E name \in ExNames : Delete(name)
    \/ \E ex1_name \in ExNames, ex2_name \in ExNames : Copy(ex1_name, ex2_name)
    \/ \E name \in ExNames : Populate(name)

Spec == Init /\ [][Next]_vars

(***************************************************************************)
(* Properties of the store.                                                *)
(***************************************************************************)
DefineOk == last.op \in {"define", "define_"} /\ last.res.kind = "Ok"

\* C2: a successful define / define_ followed by load of the same name, with
\* no operation in between, returns the record that was defined (name,
\* crates in order, toolchains, mode, cap-lints, rustflags), whether or not
\* the name existed before.
C2_DefineThenLoad ==
    /\ [](DefineOk =>
            /\ last.ex.name = last.name
            /\ load(disk, last.name) = Ok(last.ex))
    /\ [][(DefineOk /\ last'.op = "load" /\ last'.name = last.name)
             => last'.res = Ok(last.ex)]_vars

\* C2 witness: a define over an existing experiment succeeded, with crates
\* and a rustflags override, and load returns a record.
C2_Witness ==
    /\ last.op = "define" /\ last.res.kind = "Ok" /\ last.existed
    /\ load(disk, last.name).kind = "Ok"
    /\ load(disk, last.name).val.rustflags.some
    /\ Len(load(disk, last.name).val.crates) > 1

DeleteOk == last.op = "delete" /\ last.res.kind = "Ok"

\* C3: delete of a name that is not persisted returns Ok and changes
\* nothing; after a delete that returned Ok a second delete returns Ok too;
\* and from then on load of the name fails with NotFound until a define,
\* define_ or copy creates the name again.
C3_Delete ==
    /\ [](last.op = "delete" /\ ~last.existed => last.res = Ok(Unit))
    /\ [](DeleteOk =>
            /\ ~disk[last.name].exists
            /\ \A env \in RmEnvs :
                  delete(disk, last.name, env) = [res |-> Ok(Unit), disk |-> disk])
    /\ [](\A n \in ExNames : ~disk[n].exists => load(disk, n) = Err("NotFound"))
    /\ [][/\ last'.op = "delete" /\ ~last'.existed => disk' = disk
          /\ (DeleteOk /\ last'.op = "delete" /\ last'.name = last.name)
                => last'.res = Ok(Unit) /\ disk' = disk
          /\ (DeleteOk /\ last'.op = "load" /\ last'.name = last.name)
                => last'.res = Err("NotFound")
          /\ \A n \in ExNames :
                ~disk[n].exists /\ disk'[n].exists
                   => last'.op \in {"define", "define_", "copy"} /\ last'.name2 = n]_vars

\* C3 witness: a delete of a name that was not persisted has returned Ok.
C3_Witness ==
    /\ last.op = "delete" /\ ~last.existed /\ last.res = Ok(Unit)
    /\ \E n \in ExNames : disk[n].exists

CopyOk == last.op = "copy" /\ last.res.kind = "Ok"

\* What is left of `other` once `victim` has been deleted.
AfterDelete(victim, other) ==
    LET d2 == delete(disk, victim, StoreEnvOk).disk IN
    /\ ~d2[victim].exists
    /\ d2[other] = disk[other]
    /\ load(d2, other) = load(disk, other)

\* C4: copy fails and leaves every tree as it was when the source does not
\* exist or the destination does; otherwise (the directory copy itself
\* meeting no filesystem error) it returns Ok, the destination is a copy of
\* the whole source tree, and deleting either leaves the other as it is.
C4_Copy ==
    /\ [](last.op = "copy" =>
            /\ (~last.existed \/ last.existed2) => last.res.kind = "Err"
            /\ (last.existed /\ ~last.existed2 /\ last.io = "ok") => last.res.kind = "Ok"
            /\ last.res.kind = "Ok" =>
                  /\ last.existed /\ ~last.existed2
                  /\ disk[last.name].exists
                  /\ disk[last.name2] = disk[last.name]
                  /\ load(disk, last.name2) = load(disk, last.name)
                  /\ AfterDelete(last.name, last.name2)
                  /\ AfterDelete(last.name2, last.name))
    /\ [][/\ (last'.op = "copy" /\ (~last'.existed \/ last'.existed2)) => disk' = disk
          /\ last'.op = "copy" =>
                \A n \in ExNames : n # last'.name2 => disk'[n] = disk[n]
          /\ last'.op = "delete" =>
                \A n \in ExNames : n # last'.name => disk'[n] = disk[n]]_vars

\* C4 witness: a copy has returned Ok and its destination holds a loadable
\* record and the other files of the source.
C4_Witness ==
    /\ CopyOk
    /\ load(disk, last.name2).kind = "Ok"
    /\ "results" \in DOMAIN disk[last.name2].files

ValidationErrors ==
    {"reusing the same toolchain isn't supported",
     "rustflags are present but no toolchain is using them",
     "a toolchain is enabling rustflags but none are set"}

\* define returned the failure of get_crates or of validate.
DefineRejected ==
    /\ last.op = "define"
    /\ \/ last.res.kind = "Panic"
       \/ /\ last.res.kind = "Err"
          /\ last.res.msg \in ValidationErrors \cup {"read_all_lists"}

\* C9: define deletes the experiment of the same name before it selects the
\* corpus and validates, and persists only after validation: a define that
\* fails in selection or validation leaves no tree under the name, and a
\* define that returns Ok leaves a tree holding the new record and nothing
\* else.
C9_DefineReplaces ==
    /\ DefineRejected => ~disk[last.name].exists
    /\ (last.op = "define" /\ last.res.kind = "Ok") =>
          /\ disk[last.name].exists
          /\ DOMAIN disk[last.name].files = {ConfigFile}
          /\ load(disk, last.name) = Ok(last.ex)

\* C9 witness: define was called on a name that existed and was rejected by
\* validate.
C9_Witness ==
    /\ DefineRejected /\ last.existed
    /\ last.res.kind = "Err" /\ last.res.msg \in ValidationErrors

(***************************************************************************)
(* Working directories.  An action `f` given to with_work_crate is what it *)
(* does to the directory it is handed (f.effect) and what it returns       *)
(* (f.result); `io` gives the outcomes of the copy, the removal and the    *)
(* cargo run.  Each operation maps the crate's canonical source `src` and  *)
(* its work directory `dest` to [res, src, dest, ran], `ran` being the     *)
(* directory the action was run against, if it was run.                    *)
(***************************************************************************)
Data == [kind |-> "data"]

\* f(&path): the closure runs against the directory at `path`.
RunAction(f, dir) ==
    [res |-> IF f.result = "Ok" THEN Ok(Unit) ELSE Err(f.result),
     dir |-> IF f.effect = "none" \/ ~dir.exists THEN dir
             ELSE Dir((f.effect :> Data) @@ dir.files)]

\* with_work_crate taking the copy whatever allow_source_changes says.
with_work_crate_always_copy(src, dest, allow_source_changes, f, io) ==
    LET cp == copy_dir(src, dest, io.copy)
        r == RunAction(f, cp.dest)
        rm == remove_dir_all(r.dir, io.rm)
    IN  IF cp.res.kind # "Ok"
        THEN [res |-> cp.res, src |-> src, dest |-> cp.dest, ran |-> "none"]
        ELSE IF rm.res.kind # "Ok"
        THEN [res |-> rm.res, src |-> src, dest |-> rm.dir, ran |-> "dest_dir"]
        ELSE [res |-> r.res, src |-> src, dest |-> rm.dir, ran |-> "dest_dir"]

with_work_crate(src, dest, allow_source_changes, f, io) ==
    IF allow_source_changes
    THEN LET r == RunAction(f, src) IN
         [res |-> r.res, src |-> r.dir, dest |-> dest, ran |-> "src_dir"]
    ELSE LET cp == copy_dir(src, dest, io.copy)
             r == RunAction(f, cp.dest)
             rm == remove_dir_all(r.dir, io.rm)
         IN  IF cp.res.kind # "Ok"
             THEN [res |-> cp.res, src |-> src, dest |-> cp.dest, ran |-> "none"]
             ELSE IF rm.res.kind # "Ok"
             THEN [res |-> rm.res, src |-> src, dest |-> rm.dir, ran |-> "dest_dir"]
             ELSE [res |-> r.res, src |-> src, dest |-> rm.dir, ran |-> "dest_dir"]

\* toolchain.run_cargo(ex, path, args, ..) as the closure of capture_lockfile
\* and of fetch_crate_deps sees it: generate-lockfile writes Cargo.lock into
\* the directory it runs in, fetch --locked writes nothing there.
RunCargo(args, io) ==
    [effect |-> IF args = "generate-lockfile" /\ io.cargo = "ok" THEN "Cargo.lock" ELSE "none",
     result |-> IF io.cargo = "ok" THEN "Ok"
                ELSE IF args = "generate-lockfile" THEN "unable to generate lockfile"
                ELSE "unable to fetch deps"]

\* toml_frobber::frob_toml on a registry crate's canonical source.
frob_toml(krate, io) ==
    IF krate.kind = "Registry" /\ io.frob # "ok" THEN Err("frob_toml") ELSE Ok(Unit)

\* capture_lockfile generating the lockfile in a work copy.
capture_lockfile_in_copy(krate, should_update_lockfile, src, dest, io) ==
    IF ~should_update_lockfile /\ src.exists /\ "Cargo.lock" \in DOMAIN src.files
    THEN [res |-> Ok(Unit), src |-> src, dest |-> dest, ran |-> "none"]
    ELSE LET r == with_work_crate(src, dest, FALSE, RunCargo("generate-lockfile", io), io) IN
         IF r.res.kind = "Err"
         THEN [r EXCEPT !.res = Err(<<"failed to generate lockfile for", krate>>)]
         ELSE r

capture_lockfile(krate, should_update_lockfile, src, dest, io) ==
    IF ~should_update_lockfile /\ src.exists /\ "Cargo.lock" \in DOMAIN src.files
    THEN [res |-> Ok(Unit), src |-> src, dest |-> dest, ran |-> "none"]
    ELSE LET r == with_work_crate(src, dest, TRUE, RunCargo("generate-lockfile", io), io) IN
         IF r.res.kind = "Err"
         THEN [r EXCEPT !.res = Err(<<"failed to generate lockfile for", krate>>)]
         ELSE r

\* fetch_crate_deps with the error unwrapped instead of returned.
fetch_crate_deps_unwrap(src, dest, io) ==
    LET r == with_work_crate(src, dest, FALSE, RunCargo("fetch", io), io) IN
    IF r.res.kind = "Err" THEN [r EXCEPT !.res = Panic("called unwrap on an Err")] ELSE r

fetch_crate_deps(src, dest, io) ==
    with_work_crate(src, dest, FALSE, RunCargo("fetch", io), io)

(***************************************************************************)
(* validate and the selectors on their own: a call is drawn with its       *)
(* input, and the action applies the function.                             *)
(***************************************************************************)
\* A corpus of n distinct crates, registry and GitHub, in one of two orders.
PoolCrate(k) ==
    IF k % 2 = 1 THEN Registry(<<96 + k>>, <<49>>)
    ELSE GitHub(<<111 + ((k \div 2) % 2)>>, <<97 + (k \div 4)>>)

Corpus(n, order) ==
    [i \in 1..n |-> IF order = "asc" THEN PoolCrate(i) ELSE PoolCrate(n + 1 - i)]

\* A second repository whose url ends like RepoG's.
RepoG2 == GitHub(<<112, 111>>, <<114>>)

DemoCorpora ==
    {<<CrateA, CrateB, CrateC>>,
     StoreLists,
     <<CrateB, RepoG, RepoG2, CrateA, CrateC>>}

DemoConfigs ==
    {ConfigGood, ConfigStale,
     [crates |-> << <<97>>, <<99>> >>, github_repos |-> <<>>],
     [crates |-> << <<97>>, <<100>> >>, github_repos |-> <<>>],
     [crates |-> << <<97>>, <<97>>, <<99>> >>, github_repos |-> <<>>],
     [crates |-> << <<97>> >>, github_repos |-> << <<111, 47, 114>>, <<47, 114>> >>]}

FnCall(fn, ex, env) == [fn |-> fn, ex |-> ex, env |-> env]

ValidateCalls ==
    {FnCall("validate",
            Experiment("foo", <<>>, <<t1, t2>>, "BuildAndTest", "Forbid", rf),
            StoreEnvOk) :
        t1 \in Toolchains, t2 \in Toolchains, rf \in {None, Some("-Zfoo"), Some("")}}

DemoListCalls ==
    {FnCall("demo_list", NoEx, EnvOk(lists, <<>>, config, 0)) :
        lists \in DemoCorpora, config \in DemoConfigs}
    \cup {FnCall("demo_list", NoEx, [StoreEnvOk EXCEPT !.lists = Err("read_all_lists")])}

SmallRandomCalls ==
    {FnCall("small_random", NoEx, EnvOk(Corpus(n, order), <<>>, ConfigGood, seed)) :
        n \in 0..MaxCorpus, order \in {"asc", "desc"}, seed \in 0..MaxSeed}
    \cup {FnCall("small_random", NoEx,
                 [StoreEnvOk EXCEPT !.lists = Err("read_all_lists")])}

Top100Calls ==
    {FnCall("top_100", NoEx, EnvOk(<<>>, Corpus(n, order), ConfigGood, 0)) :
        n \in 0..MaxPop, order \in {"asc", "desc"}}
    \cup {FnCall("top_100", NoEx, [StoreEnvOk EXCEPT !.pop = Err("PopList::read")])}

FnInit ==
    /\ call \in ValidateCalls \cup DemoListCalls \cup SmallRandomCalls \cup Top100Calls
    /\ ret = [done |-> FALSE]
    /\ StoreInit /\ WorkIdle /\ EngineIdle

\* Experiment::validate(&self): the experiment is borrowed, not changed.
Validate ==
    /\ call.fn = "validate" /\ ~ret.done
    /\ ret' = [done |-> TRUE, res |-> validate(call.ex), self |-> call.ex]
    /\ UNCHANGED call
    /\ FnFrame

DemoList ==
    /\ call.fn = "demo_list" /\ ~ret.done
    /\ ret' = [done |-> TRUE, res |-> demo_list(call.env), self |-> NoEx]
    /\ UNCHANGED call
    /\ FnFrame

SmallRandom ==
    /\ call.fn = "small_random" /\ ~ret.done
    /\ ret' = [done |-> TRUE, res |-> small_random(call.env), self |-> NoEx]
    /\ UNCHANGED call
    /\ FnFrame

Top100 ==
    /\ call.fn = "top_100" /\ ~ret.done
    /\ ret' = [done |-> TRUE, res |-> top_100(call.env), self |-> NoEx]
    /\ UNCHANGED call
    /\ FnFrame

FnNext ==
    \/ Validate
    \/ DemoList
    \/ SmallRandom
    \/ Top100

SpecFn == FnInit /\ [][FnNext]_vars

Returned(fn) == ret.done /\ call.fn = fn

Range(s) == {s[i] : i \in DOMAIN s}

\* C1: validate returns Ok exactly when the two toolchains are distinct and
\* the rustflags override is present iff one of them has enable_rustflags;
\* otherwise it returns an error; the experiment is left as it was.
C1_Validate ==
    Returned("validate") =>
        LET ex == call.ex
            distinct == ex.toolchains[1] # ex.toolchains[2]
            aware == ex.toolchains[1].enable_rustflags \/ ex.toolchains[2].enable_rustflags
        IN  /\ ret.res.kind \in {"Ok", "Err"}
            /\ ret.res.kind = "Ok" <=> (distinct /\ (ex.rustflags.some <=> aware))
            /\ ret.self = ex

\* C1 witness: validate accepted an experiment with a rustflags override.
C1_Witness ==
    /\ Returned("validate") /\ ret.res.kind = "Ok"
    /\ call.ex.rustflags.some

\* The crates of the corpus a demo configuration names: a registry crate by
\* its name, a repository by a suffix of its url.
Curated(lists, config) ==
    {c \in Range(lists) :
        IF c.kind = "Registry"
        THEN \E i \in DOMAIN config.crates : config.crates[i] = c.name
        ELSE \E i \in DOMAIN config.github_repos : EndsWith(url(c), config.github_repos[i])}

NamePresent(lists, name) ==
    \E c \in Range(lists) : c.kind = "Registry" /\ c.name = name

SuffixPresent(lists, suffix) ==
    \E c \in Range(lists) : c.kind = "GitHub" /\ EndsWith(url(c), suffix)

AllCuratedPresent(lists, config) ==
    /\ \A i \in DOMAIN config.crates : NamePresent(lists, config.crates[i])
    /\ \A i \in DOMAIN config.github_repos : SuffixPresent(lists, config.github_repos[i])

\* C7: when the curated names are in the corpus demo_list returns exactly the
\* curated crates, and when a curated name is not in the corpus it returns an
\* error value to its caller, never a partial set.
C7_DemoList ==
    (Returned("demo_list") /\ call.env.lists.kind = "Ok") =>
        LET lists == call.env.lists.val
            config == call.env.config
        IN  /\ AllCuratedPresent(lists, config) =>
                  /\ ret.res.kind = "Ok"
                  /\ Range(ret.res.val) = Curated(lists, config)
            /\ (\E i \in DOMAIN config.crates : ~NamePresent(lists, config.crates[i])) =>
                  ret.res.kind = "Err"

Min(a, b) == IF a <= b THEN a ELSE b

\* C8: over a corpus of n distinct crates small_random returns min(20, n)
\* crates, pairwise distinct, all of the corpus, in ascending order.
C8_SmallRandom ==
    (Returned("small_random") /\ call.env.lists.kind = "Ok") =>
        LET lists == call.env.lists.val IN
        /\ ret.res.kind = "Ok"
        /\ Len(ret.res.val) = Min(COUNT, Len(lists))
        /\ Range(ret.res.val) \subseteq Range(lists)
        /\ \A i \in DOMAIN ret.res.val, j \in DOMAIN ret.res.val :
              i < j => /\ ret.res.val[i] # ret.res.val[j]
                       /\ CrateLess(ret.res.val[i], ret.res.val[j])

\* C8 witness: small_random returned 20 crates of a larger corpus that was
\* not in order.
C8_Witness ==
    /\ Returned("small_random") /\ ret.res.kind = "Ok"
    /\ Len(call.env.lists.val) > COUNT
    /\ Len(ret.res.val) = COUNT
    /\ Truncate(call.env.lists.val, COUNT) # ret.res.val

\* The positions of the result that match a curated name / a curated suffix.
NameMatches(result, name) ==
    {i \in DOMAIN result : result[i].kind = "Registry" /\ result[i].name = name}

SuffixMatches(result, suffix) ==
    {i \in DOMAIN result : result[i].kind = "GitHub" /\ EndsWith(url(result[i]), suffix)}

\* C12: whenever demo_list returns Ok, every curated name and every curated
\* repo suffix is matched by exactly one crate of the result, and every crate
\* of the result matches exactly one curated entry: the match count never
\* equals the expected count with one entry matched twice and another not
\* matched at all.
C12_DemoMatching ==
    (Returned("demo_list") /\ ret.res.kind = "Ok") =>
        LET result == ret.res.val
            config == call.env.config
        IN  /\ \A i \in DOMAIN config.crates :
                  Cardinality(NameMatches(result, config.crates[i])) = 1
            /\ \A j \in DOMAIN config.github_repos :
                  Cardinality(SuffixMatches(result, config.github_repos[j])) = 1
            /\ \A i \in DOMAIN result :
                  IF result[i].kind = "Registry"
                  THEN \E k \in DOMAIN config.crates : config.crates[k] = result[i].name
                  ELSE Cardinality({j \in DOMAIN config.github_repos :
                                      EndsWith(url(result[i]), config.github_repos[j])}) = 1

\* C11: top_100 returns the first min(100, n) entries of the popularity list
\* of length n, in ranked order, and a list shorter than 100 is no error:
\* it fails only when the list cannot be read.
C11_Top100 ==
    Returned("top_100") =>
        IF call.env.pop.kind = "Ok"
        THEN LET pop == call.env.pop.val IN
             /\ ret.res.kind = "Ok"
             /\ Len(ret.res.val) = Min(100, Len(pop))
             /\ \A i \in DOMAIN ret.res.val : ret.res.val[i] = pop[i]
        ELSE ret.res = call.env.pop

\* C11 witness: top_100 was given a list longer than 100 and returned it
\* cut to its first 100 entries, in ranked order.
C11_Witness ==
    /\ Returned("top_100") /\ ret.res.kind = "Ok"
    /\ Len(call.env.pop.val) > 100
    /\ Len(ret.res.val) = 100
    /\ ret.res.val[100] = call.env.pop.val[100]

(***************************************************************************)
(* A crate's directories as a state machine: with_work_crate called on     *)
(* the canonical source of a task, one call at a time.                     *)
(***************************************************************************)
WorkTasks == {<<"e1", Stable, CrateA>>, <<"e1", Beta, RepoG>>}

\* The closures handed to with_work_crate: what each writes, what it returns.
WorkActions ==
    {[effect |-> e, result |-> r] : e \in {"none", "out"}, r \in {"Ok", "action failed"}}

IoOk == [copy |-> "ok", rm |-> "ok", cargo |-> "ok", frob |-> "ok", build |-> "ok"]

WorkIo ==
    {[IoOk EXCEPT !.copy = c] : c \in {"ok", "failed", "partial"}}
    \cup {[IoOk EXCEPT !.rm = r] : r \in {"failed", "partial"}}

Manifest == ("Cargo.toml" :> Data)

\* A lockfile that came with the crate, as against one cargo generated.
ShippedLock == [kind |-> "shipped lock"]

WorkInit ==
    /\ source \in [WorkTasks -> {Dir(Manifest), Dir(("Cargo.lock" :> ShippedLock) @@ Manifest)}]
    /\ work = [t \in WorkTasks |-> NoDir]
    /\ wcall = [op |-> "none"]
    /\ StoreInit /\ FnIdle /\ EngineIdle

WithWorkCrate(task) ==
    \E allow_source_changes \in BOOLEAN, f \in WorkActions, io \in WorkIo :
        LET r == with_work_crate(source[task], work[task], allow_source_changes, f, io) IN
        /\ source' = [source EXCEPT ![task] = r.src]
        /\ work' = [work EXCEPT ![task] = r.dest]
        /\ wcall' = [op |-> "with_work_crate", task |-> task,
                     allow_source_changes |-> allow_source_changes, f |-> f,
                     res |-> r.res, src_before |-> source[task],
                     dest_before |-> work[task]]
        /\ WorkFrame

CaptureLockfile(task) ==
    \E should_update_lockfile \in BOOLEAN, cargo \in {"ok", "failed"} :
        LET r == capture_lockfile(task[3], should_update_lockfile, source[task], work[task],
                                  [IoOk EXCEPT !.cargo = cargo])
        IN  /\ source' = [source EXCEPT ![task] = r.src]
            /\ work' = [work EXCEPT ![task] = r.dest]
            /\ wcall' = [op |-> "capture_lockfile", task |-> task,
                         should_update_lockfile |-> should_update_lockfile,
                         cargo |-> cargo, res |-> r.res, ran |-> r.ran,
                         src_before |-> source[task], dest_before |-> work[task]]
            /\ WorkFrame

FetchCrateDeps(task) ==
    \E io \in WorkIo \cup {[IoOk EXCEPT !.cargo = "failed"]} :
        LET r == fetch_crate_deps(source[task], work[task], io) IN
        /\ source' = [source EXCEPT ![task] = r.src]
        /\ work' = [work EXCEPT ![task] = r.dest]
        /\ wcall' = [op |-> "fetch_crate_deps", task |-> task, io |-> io,
                     res |-> r.res, ran |-> r.ran,
                     src_before |-> source[task], dest_before |-> work[task]]
        /\ WorkFrame

WorkNext ==
    \E task \in WorkTasks :
        \/ WithWorkCrate(task)
        \/ CaptureLockfile(task)
        \/ FetchCrateDeps(task)

SpecWork == WorkInit /\ [][WorkNext]_vars

WorkReturned(allow) ==
    wcall.op = "with_work_crate" /\ wcall.allow_source_changes = allow

\* C5: with allow_source_changes = false, on every exit path (the copy
\* fails, the action returns Ok or an error, the removal fails) no work
\* directory of the task is left once the call has returned, and the
\* canonical source is what it was before the call.
C5_NoWorkDirLeft ==
    WorkReturned(FALSE) =>
        /\ ~work[wcall.task].exists
        /\ source[wcall.task] = wcall.src_before

\* C10: with allow_source_changes = true the action runs on the canonical
\* source and no work directory is made: what the action wrote is in the
\* canonical source after the call, whether it returned Ok or an error.
C10_SourceChanges ==
    /\ [](WorkReturned(TRUE) =>
            /\ wcall.res = RunAction(wcall.f, wcall.src_before).res
            /\ source[wcall.task] = RunAction(wcall.f, wcall.src_before).dir
            /\ wcall.f.effect = "out" =>
                  /\ "out" \in DOMAIN source[wcall.task].files
                  /\ source[wcall.task].files["out"] = Data
            /\ work[wcall.task] = wcall.dest_before)
    /\ [][wcall'.op = "with_work_crate" /\ wcall'.allow_source_changes => work' = work]_vars

\* C10 witness: an action that wrote a file and returned an error has run
\* with allow_source_changes = true on a source that did not hold the file.
C10_Witness ==
    /\ WorkReturned(TRUE)
    /\ wcall.f.effect = "out" /\ wcall.res.kind = "Err"
    /\ "out" \notin DOMAIN wcall.src_before.files
    /\ "out" \in DOMAIN source[wcall.task].files
    /\ ~work[wcall.task].exists

\* C17: capture_lockfile returns Ok without running cargo and without
\* changing the canonical source exactly when the source has a Cargo.lock and
\* the config does not ask for an update; in every other case it runs the
\* generation once, against the canonical source and not a copy, and returns
\* an error naming the crate if the generation fails.
C17_CaptureLockfile ==
    wcall.op = "capture_lockfile" =>
        LET t == wcall.task
            before == wcall.src_before
            noop == "Cargo.lock" \in DOMAIN before.files /\ ~wcall.should_update_lockfile
        IN  /\ work[t] = wcall.dest_before
            /\ IF noop
               THEN /\ wcall.res = Ok(Unit)
                    /\ wcall.ran = "none"
                    /\ source[t] = before
               ELSE /\ wcall.ran = "src_dir"
                    /\ IF wcall.cargo = "ok"
                       THEN /\ wcall.res = Ok(Unit)
                            /\ source[t] = Dir(("Cargo.lock" :> Data) @@ before.files)
                       ELSE wcall.res = Err(<<"failed to generate lockfile for", t[3]>>)

\* C17 witness: the source came with a lockfile, the config asked for an
\* update, and the lockfile in the canonical source is now the generated one.
C17_Witness ==
    /\ wcall.op = "capture_lockfile"
    /\ wcall.should_update_lockfile
    /\ "Cargo.lock" \in DOMAIN wcall.src_before.files
    /\ wcall.src_before.files["Cargo.lock"] = ShippedLock
    /\ wcall.res.kind = "Ok"
    /\ source[wcall.task].files["Cargo.lock"] = Data
    /\ ~work[wcall.task].exists

\* C18: fetch_crate_deps runs the fetch against a work copy only; after it
\* has returned, whether the fetch succeeded or failed, the canonical source
\* (its Cargo.lock included) is what it was before the call and the work copy
\* is gone.
C18_FetchFrame ==
    wcall.op = "fetch_crate_deps" =>
        /\ wcall.ran # "src_dir"
        /\ source[wcall.task] = wcall.src_before
        /\ ~work[wcall.task].exists

(***************************************************************************)
(* The execution engine: the tasks of the grid, toolchain by toolchain     *)
(* and crate by crate, each through its steps (patch, lock, fetch,         *)
(* build/test, record).  The canonical source and the work directory of a  *)
(* task are `source` and `work`; `engine` is the position in the grid and  *)
(* the outcomes recorded so far.                                           *)
(***************************************************************************)
EngineToolchains == <<Stable, Beta>>

EngineCrateLists ==
    {<<>>, <<CrateA>>, <<CrateA, CrateB, CrateC>>, <<CrateB, RepoG>>}

\* The task grid of an experiment, in the order the engine walks it.
Grid(ex_name, toolchains, crates) ==
    [i \in 1..(Len(toolchains) * Len(crates)) |->
        <<ex_name, toolchains[((i - 1) \div Len(crates)) + 1],
          crates[((i - 1) % Len(crates)) + 1]>>]

\* The collaborator whose failures a run meets: the manifest patcher, cargo
\* (lockfile generation and fetch), the copy into the work directory, its
\* removal, or the build.
EngineFaults ==
    {[IoOk EXCEPT !.frob = "failed"], [IoOk EXCEPT !.cargo = "failed"],
     [IoOk EXCEPT !.copy = "failed"], [IoOk EXCEPT !.rm = "failed"],
     [IoOk EXCEPT !.build = "failed"]}

\* The build/test command as the closure with_work_crate runs: it writes
\* its target output into the directory it runs in.
RunBuild(io) ==
    [effect |-> "target",
     result |-> IF io.build = "ok" THEN "Ok" ELSE "build failed"]

\* Steps 1 to 4 of a task; the first step that fails ends the task.
TaskSteps(task, should_update_lockfile, src, dest, io) ==
    LET patch == frob_toml(task[3], io)
        lock == capture_lockfile(task[3], should_update_lockfile, src, dest, io)
        fetch == fetch_crate_deps(lock.src, lock.dest, io)
        build == with_work_crate(fetch.src, fetch.dest, FALSE, RunBuild(io), io)
    IN  IF patch.kind # "Ok" THEN [res |-> patch, src |-> src, dest |-> dest]
        ELSE IF lock.res.kind # "Ok" THEN lock
        ELSE IF fetch.res.kind # "Ok" THEN fetch
        ELSE build

\* The canonical source of a crate before the run: the crates published
\* with a lockfile have it, the others have their manifest only.
InitialSource(krate) ==
    IF krate \in {CrateA, RepoG} THEN Dir(("Cargo.lock" :> Data) @@ Manifest)
    ELSE Dir(Manifest)

EngineInit ==
    /\ \E crates \in EngineCrateLists, update \in BOOLEAN, fault \in EngineFaults :
          LET grid == Grid("e1", EngineToolchains, crates) IN
          /\ engine = [status |-> "running", grid |-> grid,
                       should_update_lockfile |-> update, fault |-> fault,
                       next |-> 1, outcomes |-> <<>>]
          /\ source = [t \in Range(grid) |-> InitialSource(t[3])]
          /\ work = [t \in Range(grid) |-> NoDir]
    /\ wcall = [op |-> "none"]
    /\ StoreInit /\ FnIdle

\* One task of the grid, from its patch step to the record of its outcome:
\* the task meets the run's fault or does not.  An error of a step is the
\* task's outcome; a panic ends the run.
RunTask ==
    /\ engine.status = "running"
    /\ engine.next <= Len(engine.grid)
    /\ \E io \in {IoOk, engine.fault} :
          LET task == engine.grid[engine.next]
              r == TaskSteps(task, engine.should_update_lockfile,
                             source[task], work[task], io)
          IN  /\ source' = [source EXCEPT ![task] = r.src]
              /\ work' = [work EXCEPT ![task] = r.dest]
              /\ engine' =
                    IF r.res.kind = "Panic"
                    THEN [engine EXCEPT !.status = "aborted"]
                    ELSE [engine EXCEPT
                            !.next = @ + 1,
                            !.outcomes = Append(@, [task |-> task, res |-> r.res,
                                                    io |-> io])]
    /\ EngineFrame

\* The grid is exhausted: the run is over.
Finish ==
    /\ engine.status = "running"
    /\ engine.next > Len(engine.grid)
    /\ engine' = [engine EXCEPT !.status = "done"]
    /\ UNCHANGED <<source, work>>
    /\ EngineFrame

EngineNext == RunTask \/ Finish

SpecEngine == EngineInit /\ [][EngineNext]_vars /\ WF_vars(EngineNext)

\* The outcome recorded for grid position i is a failure exactly when one
\* of the task's steps met a failure.
StepFailed(task, io) ==
    \/ task[3].kind = "Registry" /\ io.frob # "ok"
    \/ io.cargo # "ok"
    \/ io.copy # "ok"
    \/ io.rm # "ok"
    \/ io.build # "ok"

\* C6: a failure in the patch, lock, fetch or build/test step of a task is
\* recorded as that task's outcome and never ends the run: the outcomes
\* recorded are one per task walked, in grid order; every step of the run
\* while tasks remain records the next task's outcome and goes on to the
\* task after it; and the run ends with one outcome per task of the grid.
C6_FailureIsolation ==
    /\ [](/\ engine.status \in {"running", "done"}
          /\ Len(engine.outcomes) = engine.next - 1
          /\ \A i \in DOMAIN engine.outcomes :
                /\ engine.outcomes[i].task = engine.grid[i]
                /\ engine.outcomes[i].res.kind =
                      IF StepFailed(engine.grid[i], engine.outcomes[i].io)
                      THEN "Err" ELSE "Ok"
          /\ engine.status = "done" => Len(engine.outcomes) = Len(engine.grid))
    /\ [][engine.next <= Len(engine.grid) =>
            /\ engine'.status = "running"
            /\ engine'.next = engine.next + 1
            /\ SubSeq(engine'.outcomes, 1, Len(engine.outcomes)) = engine.outcomes]_vars
    /\ <>(engine.status = "done" /\ Len(engine.outcomes) = Len(engine.grid))

\* C6 witness: the run over A, B, C is done; under the first toolchain the
\* build of B failed, A before it and C after it succeeded, and all six
\* tasks have their outcome.
C6_Witness ==
    /\ engine.status = "done"
    /\ Len(engine.grid) = 6 /\ Len(engine.outcomes) = 6
    /\ engine.outcomes[1].task[3] = CrateA /\ engine.outcomes[1].res.kind = "Ok"
    /\ engine.outcomes[2].task[3] = CrateB /\ engine.outcomes[2].res.kind = "Err"
    /\ engine.outcomes[2].io.build = "failed"
    /\ engine.outcomes[3].task[3] = CrateC /\ engine.outcomes[3].res.kind = "Ok"
    /\ engine.outcomes[3].task[2] = engine.outcomes[2].task[2]

(***************************************************************************)
(* with_work_crate with allow_source_changes = false, called from several  *)
(* threads at once: each call is its three steps (copy_dir, the action,    *)
(* remove_dir_all), and the steps of the calls in flight interleave.       *)
(* Here `work` maps the path crate_work_dir gives to the directory there,  *)
(* and `wcall` maps each thread to its call.                               *)
(***************************************************************************)
Threads == 1..MaxThreads

\* toolchain.to_string() and krate.id(): the path components of a toolchain
\* and of a crate.
ToolchainToString(tc) == <<tc.source, tc.enable_rustflags>>

CrateId(krate) ==
    IF krate.kind = "Registry" THEN <<"reg", krate.name, krate.version>>
    ELSE <<"gh", krate.org, krate.name>>

\* TEST_SOURCE_DIR / ex.name / toolchain / krate.id()
crate_work_dir(ex_name, toolchain, krate) ==
    <<ex_name, ToolchainToString(toolchain), CrateId(krate)>>

WorkDirOf(task) == crate_work_dir(task[1], task[2], task[3])

ConcTasks == {<<"e1", Stable, CrateA>>, <<"e1", Beta, CrateA>>, <<"e1", Stable, RepoG>>}

ConcActions ==
    {[effect |-> "out", result |-> "Ok"], [effect |-> "none", result |-> "action failed"]}

NoCall == [pc |-> "idle"]

ConcInit ==
    /\ source = [t \in ConcTasks |-> Dir(Manifest)]
    /\ work = [p \in {WorkDirOf(t) : t \in ConcTasks} |-> NoDir]
    /\ wcall = [t \in Threads |-> NoCall]
    /\ StoreInit /\ FnIdle /\ EngineIdle

ConcFrame == UNCHANGED <<disk, last, call, ret, source, engine, target>>

\* A thread enters with_work_crate(ex, toolchain, krate, false, f).
Enter(t) ==
    /\ wcall[t].pc = "idle"
    /\ \E task \in ConcTasks, f \in ConcActions :
          wcall' = [wcall EXCEPT ![t] = [pc |-> "copy", task |-> task, f |-> f,
                                         dest_dir |-> WorkDirOf(task)]]
    /\ UNCHANGED work
    /\ ConcFrame

\* util::copy_dir(&src_dir, &dest_dir)?
CopyStep(t) ==
    /\ wcall[t].pc = "copy"
    /\ \E io \in {"ok", "failed", "partial"} :
          LET cp == copy_dir(source[wcall[t].task], work[wcall[t].dest_dir], io) IN
          /\ work' = [work EXCEPT ![wcall[t].dest_dir] = cp.dest]
          /\ wcall' = [wcall EXCEPT ![t] =
                          IF cp.res.kind = "Ok" THEN [@ EXCEPT !.pc = "run"] ELSE NoCall]
    /\ ConcFrame

\* let r = f(&dest_dir);
ActionStep(t) ==
    /\ wcall[t].pc = "run"
    /\ LET r == RunAction(wcall[t].f, work[wcall[t].dest_dir]) IN
       /\ work' = [work EXCEPT ![wcall[t].dest_dir] = r.dir]
       /\ wcall' = [wcall EXCEPT ![t] = [@ EXCEPT !.pc = "remove"]]
    /\ ConcFrame

\* util::remove_dir_all(&dest_dir)?; r
RemoveStep(t) ==
    /\ wcall[t].pc = "remove"
    /\ \E io \in {"ok", "failed"} :
          LET rm == remove_dir_all(work[wcall[t].dest_dir], io) IN
          /\ work' = [work EXCEPT ![wcall[t].dest_dir] = rm.dir]
          /\ wcall' = [wcall EXCEPT ![t] = NoCall]
    /\ ConcFrame

ConcNext ==
    \E t \in Threads :
        \/ Enter(t)
        \/ CopyStep(t)
        \/ ActionStep(t)
        \/ RemoveStep(t)

SpecConc == ConcInit /\ [][ConcNext]_vars

InFlight(t) == wcall[t].pc # "idle"

\* The step taken is not a step of thread t, whose action is running
\* against its directory.
OthersStepWhileRunning(t) ==
    /\ wcall[t].pc = "run"
    /\ wcall'[t] = wcall[t]

\* C13: for any interleaving of concurrent with_work_crate calls with
\* allow_source_changes = false, calls for distinct (experiment, toolchain,
\* crate) triples use distinct directories, two calls in flight never share
\* one directory, and the directory an action is running against is never
\* written to or deleted by a step of another call.
C13_Isolation ==
    /\ [](/\ \A a \in ConcTasks, b \in ConcTasks : a # b => WorkDirOf(a) # WorkDirOf(b)
          /\ \A t \in Threads, u \in Threads :
                (t # u /\ InFlight(t) /\ InFlight(u)) => wcall[t].dest_dir # wcall[u].dest_dir)
    /\ [][\A t \in Threads :
            OthersStepWhileRunning(t) => work'[wcall[t].dest_dir] = work[wcall[t].dest_dir]]_vars

\* Calls in flight for pairwise distinct triples: no step of one changes the
\* directory another's action is running against.
DistinctTriplesIsolated ==
    [][\A t \in Threads :
         (/\ OthersStepWhileRunning(t)
          /\ \A u \in Threads : (u # t /\ InFlight(u)) => wcall[u].task # wcall[t].task)
         => work'[wcall[t].dest_dir] = work[wcall[t].dest_dir]]_vars

(***************************************************************************)
(* The loops over an experiment's crates and toolchains: fetch_repo_crates,*)
(* capture_shas and prepare_all_toolchains.  Each is its loop run to its   *)
(* return, with the collaborator calls it made on the way, in order.       *)
(* `git`, `db` and `prep` give the outcome the collaborator has for a      *)
(* repository or a toolchain.                                              *)
(***************************************************************************)
\* Experiment::fetch_repo_crates with `?` on the clone instead of the report.
RECURSIVE fetch_repo_crates_fail_fast(_, _)
fetch_repo_crates_fail_fast(crates, git) ==
    IF crates = <<>> THEN [res |-> Ok(Unit), cloned |-> <<>>, reported |-> <<>>]
    ELSE LET krate == Head(crates) IN
         IF krate.kind # "GitHub" THEN fetch_repo_crates_fail_fast(Tail(crates), git)
         ELSE IF git[krate] # "ok"
         THEN [res |-> Err(<<"shallow_clone_or_pull", url(krate)>>),
               cloned |-> <<krate>>, reported |-> <<>>]
         ELSE LET rest == fetch_repo_crates_fail_fast(Tail(crates), git) IN
              [rest EXCEPT !.cloned = <<krate>> \o @]

\* Experiment::fetch_repo_crates: `cloned` are the repositories handed to
\* git::shallow_clone_or_pull, `reported` those handed to util::report_error.
RECURSIVE fetch_repo_crates(_, _)
fetch_repo_crates(crates, git) ==
    IF crates = <<>> THEN [res |-> Ok(Unit), cloned |-> <<>>, reported |-> <<>>]
    ELSE LET krate == Head(crates)
             rest == fetch_repo_crates(Tail(crates), git)
         IN  IF krate.kind # "GitHub" THEN rest
             ELSE [rest EXCEPT
                     !.cloned = <<krate>> \o @,
                     !.reported = IF git[krate] # "ok" THEN <<krate>> \o @ ELSE @]

\* git rev-parse HEAD in the mirror of a repository: the first line of its
\* output, or no line at all, or a failure to run.
Sha(repo) == <<115>> \o repo.name

RevParse(repo, git) ==
    CASE git[repo] = "ok" -> Ok(<<Sha(repo)>>)
      [] git[repo] = "empty line" -> Ok(<< <<>> >>)
      [] git[repo] = "no output" -> Ok(<<>>)
      [] OTHER -> Err("run_capture")

\* capture_shas going on to the next crate when the output is bogus.
RECURSIVE capture_shas_skip_bogus(_, _, _)
capture_shas_skip_bogus(crates, git, db) ==
    IF crates = <<>> THEN [res |-> Ok(Unit), recorded |-> <<>>]
    ELSE LET krate == Head(crates)
             r == RevParse(krate, git)
             rest == capture_shas_skip_bogus(Tail(crates), git, db)
         IN  IF krate.kind # "GitHub" THEN rest
             ELSE IF r.kind # "Ok"
             THEN [res |-> Err(<<"unable to capture sha for", krate>>), recorded |-> <<>>]
             ELSE IF r.val = <<>> \/ r.val[1] = <<>> THEN rest
             ELSE IF db[krate] # "ok"
             THEN [res |-> Err(<<"failed to record the sha of GitHub repo", krate>>),
                   recorded |-> <<>>]
             ELSE [rest EXCEPT !.recorded = <<[repo |-> krate, sha |-> r.val[1]]>> \o @]

\* capture_shas: `recorded` are the (repo, sha) pairs db.record_sha stored.
RECURSIVE capture_shas(_, _, _)
capture_shas(crates, git, db) ==
    IF crates = <<>> THEN [res |-> Ok(Unit), recorded |-> <<>>]
    ELSE LET krate == Head(crates)
             r == RevParse(krate, git)
         IN  IF krate.kind # "GitHub" THEN capture_shas(Tail(crates), git, db)
             ELSE IF r.kind # "Ok"
             THEN [res |-> Err(<<"unable to capture sha for", krate>>), recorded |-> <<>>]
             ELSE IF r.val = <<>> \/ r.val[1] = <<>>
             THEN [res |-> Err(<<"bogus output from git log for", krate>>), recorded |-> <<>>]
             ELSE IF db[krate] # "ok"
             THEN [res |-> Err(<<"failed to record the sha of GitHub repo", krate>>),
                   recorded |-> <<>>]
             ELSE LET rest == capture_shas(Tail(crates), git, db) IN
                  [rest EXCEPT !.recorded = <<[repo |-> krate, sha |-> r.val[1]]>> \o @]

\* prepare_all_toolchains going on after a prepare that failed.
RECURSIVE prepare_all_toolchains_ignore_errors(_, _)
prepare_all_toolchains_ignore_errors(toolchains, prep) ==
    IF toolchains = <<>> THEN [res |-> Ok(Unit), prepared |-> <<>>]
    ELSE LET rest == prepare_all_toolchains_ignore_errors(Tail(toolchains), prep) IN
         [rest EXCEPT !.prepared = <<Head(toolchains)>> \o @]

\* prepare_all_toolchains: `prepared` are the toolchains whose prepare() ran.
RECURSIVE prepare_all_toolchains(_, _)
prepare_all_toolchains(toolchains, prep) ==
    IF toolchains = <<>> THEN [res |-> Ok(Unit), prepared |-> <<>>]
    ELSE LET tc == Head(toolchains) IN
         IF prep[tc] # "ok"
         THEN [res |-> Err(<<"prepare", tc>>), prepared |-> <<tc>>]
         ELSE LET rest == prepare_all_toolchains(Tail(toolchains), prep) IN
              [rest EXCEPT !.prepared = <<tc>> \o @]

RepoH == GitHub(<<113>>, <<115>>)

SyncRepos == {RepoG, RepoG2, RepoH}

SyncCrateLists ==
    {<<>>, <<CrateA>>, <<CrateA, RepoG, CrateB, RepoG2>>,
     <<RepoG, RepoG2, RepoH>>, <<RepoH, CrateC>>}

SyncToolchains == {<<Stable, Beta>>, <<Beta, Stable>>, <<Stable, BetaRf>>}

SyncEx(crates, toolchains) ==
    Experiment("e1", crates, toolchains, "BuildAndTest", "Forbid", None)

FetchRepoCratesCalls ==
    {FnCall("fetch_repo_crates", SyncEx(crates, <<Stable, Beta>>), [git |-> git]) :
        crates \in SyncCrateLists, git \in [SyncRepos -> {"ok", "failed"}]}

CaptureShasCalls ==
    {FnCall("capture_shas", SyncEx(crates, <<Stable, Beta>>), [git |-> git, db |-> db]) :
        crates \in SyncCrateLists,
        git \in [SyncRepos -> {"ok", "empty line", "no output", "failed"}],
        db \in [SyncRepos -> {"ok", "failed"}]}

PrepareCalls ==
    {FnCall("prepare_all_toolchains", SyncEx(<<CrateA>>, tcs), [prep |-> prep]) :
        tcs \in SyncToolchains, prep \in [{Stable, Beta, BetaRf} -> {"ok", "failed"}]}

SyncInit ==
    /\ call \in FetchRepoCratesCalls \cup CaptureShasCalls \cup PrepareCalls
    /\ ret = [done |-> FALSE]
    /\ StoreInit /\ WorkIdle /\ EngineIdle

FetchRepoCrates ==
    /\ call.fn = "fetch_repo_crates" /\ ~ret.done
    /\ ret' = [done |-> TRUE, out |-> fetch_repo_crates(call.ex.crates, call.env.git)]
    /\ UNCHANGED call
    /\ FnFrame

CaptureShas ==
    /\ call.fn = "capture_shas" /\ ~ret.done
    /\ ret' = [done |-> TRUE,
               out |-> capture_shas(call.ex.crates, call.env.git, call.env.db)]
    /\ UNCHANGED call
    /\ FnFrame

PrepareAllToolchains ==
    /\ call.fn = "prepare_all_toolchains" /\ ~ret.done
    /\ ret' = [done |-> TRUE,
               out |-> prepare_all_toolchains(call.ex.toolchains, call.env.prep)]
    /\ UNCHANGED call
    /\ FnFrame

SyncNext ==
    \/ FetchRepoCrates
    \/ CaptureShas
    \/ PrepareAllToolchains

SpecSync == SyncInit /\ [][SyncNext]_vars

IsGitHub(c) == c.kind = "GitHub"

Occurrences(s, x) == Cardinality({i \in DOMAIN s : s[i] = x})

\* C14: for any pattern of clone failures fetch_repo_crates attempts the
\* sync of every GitHub crate of the experiment exactly once, in list order,
\* reports each failure, touches no registry crate and returns Ok: a failure
\* for one crate never prevents the attempt for a later one.
C14_FetchBestEffort ==
    Returned("fetch_repo_crates") =>
        LET crates == call.ex.crates
            git == call.env.git
            Failing(c) == IsGitHub(c) /\ git[c] # "ok"
        IN  /\ ret.out.res = Ok(Unit)
            /\ ret.out.cloned = SelectSeq(crates, IsGitHub)
            /\ \A i \in DOMAIN crates :
                  Occurrences(ret.out.cloned, crates[i]) = IF IsGitHub(crates[i]) THEN 1 ELSE 0
            /\ ret.out.reported = SelectSeq(crates, Failing)

\* C14 witness: the first repository of three failed to sync, the two after
\* it were attempted all the same, and the call returned Ok.
C14_Witness ==
    /\ Returned("fetch_repo_crates")
    /\ call.ex.crates = <<RepoG, RepoG2, RepoH>>
    /\ call.env.git[RepoG] = "failed" /\ call.env.git[RepoH] = "ok"
    /\ ret.out.res.kind = "Ok"
    /\ Len(ret.out.cloned) = 3 /\ ret.out.cloned[3] = RepoH
    /\ ret.out.reported[1] = RepoG

\* The first position of s that fails Good, or Len(s) + 1 when none does.
FirstBad(s, Good(_)) ==
    IF \E i \in DOMAIN s : ~Good(s[i])
    THEN CHOOSE i \in DOMAIN s : ~Good(s[i]) /\ \A j \in 1..(i - 1) : Good(s[j])
    ELSE Len(s) + 1

\* C15: capture_shas takes the GitHub crates in list order; at the first one
\* whose commit query fails or gives no or an empty line, or whose record
\* fails, it returns an error naming it, with nothing recorded for it or for
\* any later crate and the shas of the earlier ones recorded; when it returns
\* Ok, one non-empty sha is recorded for every GitHub crate and none for a
\* registry crate.
C15_CaptureFailFast ==
    Returned("capture_shas") =>
        LET repos == SelectSeq(call.ex.crates, IsGitHub)
            Good(c) == call.env.git[c] = "ok" /\ call.env.db[c] = "ok"
            k == FirstBad(repos, Good)
        IN  /\ Len(ret.out.recorded) = k - 1
            /\ \A i \in 1..(k - 1) :
                  /\ ret.out.recorded[i].repo = repos[i]
                  /\ ret.out.recorded[i].sha # <<>>
            /\ ret.out.res.kind = IF k <= Len(repos) THEN "Err" ELSE "Ok"
            /\ k <= Len(repos) => ret.out.res.msg[2] = repos[k]
            /\ \A i \in DOMAIN ret.out.recorded : IsGitHub(ret.out.recorded[i].repo)

\* C15 witness: the second of three repositories gave an empty line; the
\* call returned an error with the first one's sha recorded and no other.
C15_Witness ==
    /\ Returned("capture_shas")
    /\ call.ex.crates = <<RepoG, RepoG2, RepoH>>
    /\ call.env.git[RepoG] = "ok" /\ call.env.db[RepoG] = "ok"
    /\ call.env.git[RepoG2] = "empty line"
    /\ call.env.git[RepoH] = "ok" /\ call.env.db[RepoH] = "ok"
    /\ ret.out.res.kind = "Err"
    /\ Len(ret.out.recorded) = 1 /\ ret.out.recorded[1].repo = RepoG

\* C16: prepare_all_toolchains prepares the toolchains one at a time in list
\* order; at the first prepare that fails it returns that error without
\* preparing the toolchain after it; it returns Ok only if every prepare
\* succeeded, so after Ok no toolchain of the experiment is unprepared.
C16_PrepareInOrder ==
    Returned("prepare_all_toolchains") =>
        LET tcs == call.ex.toolchains
            Good(tc) == call.env.prep[tc] = "ok"
            k == FirstBad(tcs, Good)
        IN  /\ ret.out.prepared = SubSeq(tcs, 1, Min(k, Len(tcs)))
            /\ ret.out.res.kind = IF k <= Len(tcs) THEN "Err" ELSE "Ok"
            /\ k <= Len(tcs) => ret.out.res = Err(<<"prepare", tcs[k]>>)
            /\ ret.out.res.kind = "Ok" =>
                  \A i \in DOMAIN tcs : Good(tcs[i]) /\ ret.out.prepared[i] = tcs[i]

\* C16 witness: the first toolchain failed to prepare, the second would have
\* succeeded and was not prepared.
C16_Witness ==
    /\ Returned("prepare_all_toolchains")
    /\ call.ex.toolchains = <<Stable, Beta>>
    /\ call.env.prep[Stable] = "failed" /\ call.env.prep[Beta] = "ok"
    /\ ret.out.res.kind = "Err"
    /\ ret.out.prepared = <<Stable>>

(***************************************************************************)
(* Target directories.  toolchain::ex_target_dir(ex_name) is a directory   *)
(* of its own per experiment, filled by the builds, apart from the         *)
(* experiment's directory under EXPERIMENT_DIR.  delete_all_target_dirs    *)
(* maps the experiments `d` and the target directories `tg` to             *)
(* [res, disk, target].                                                    *)
(***************************************************************************)
\* delete_all_target_dirs without the test that the directory exists.
delete_all_target_dirs_unchecked(d, tg, ex_name, env) ==
    LET r == remove_dir_all(tg[ex_name], env.rm) IN
    [res |-> r.res, disk |-> d, target |-> [tg EXCEPT ![ex_name] = r.dir]]

delete_all_target_dirs(d, tg, ex_name, env) ==
    IF tg[ex_name].exists
    THEN LET r == remove_dir_all(tg[ex_name], env.rm) IN
         [res |-> r.res, disk |-> d, target |-> [tg EXCEPT ![ex_name] = r.dir]]
    ELSE [res |-> Ok(Unit), disk |-> d, target |-> tg]

\* The experiments on disk when the target directories come into play:
\* e1 defined, e2 defined or not.
DefinedDisk(names) ==
    [n \in ExNames |->
        IF n \in names
        THEN define_([m \in ExNames |-> NoDir], n, <<Stable, Beta>>, <<CrateA, RepoG>>,
                     "BuildAndTest", "Forbid", None, StoreEnvOk).disk[n]
        ELSE NoDir]

TargetInit ==
    /\ disk \in {DefinedDisk({"e1"}), DefinedDisk(ExNames)}
    /\ target = [n \in ExNames |-> NoDir]
    /\ last = [op |-> "none", name |-> "<none>", name2 |-> "<none>", res |-> Ok(Unit),
               ex |-> NoEx, io |-> "ok", existed |-> FALSE, existed2 |-> FALSE]
    /\ source = [t \in WorkTasks |-> Dir(Manifest)]
    /\ work = [t \in WorkTasks |-> NoDir]
    /\ wcall = [op |-> "none"]
    /\ FnIdle /\ EngineIdle

TargetFrame == UNCHANGED <<call, ret, source, work, wcall, engine>>

\* A build of the experiment leaves its artifacts in the target directory.
BuildTarget(name) ==
    /\ disk[name].exists
    /\ target' = [target EXCEPT ![name] = Dir(("debug" :> Data))]
    /\ last' = [Call("build", name, name, Ok(Unit), NoEx, "ok")
                   EXCEPT !.existed = target[name].exists]
    /\ UNCHANGED disk
    /\ TargetFrame

DeleteAllTargetDirs(name) ==
    \E env \in RmEnvs :
        LET r == delete_all_target_dirs(disk, target, name, env) IN
        /\ disk' = r.disk
        /\ target' = r.target
        /\ last' = [Call("delete_all_target_dirs", name, name, r.res, NoEx, env.rm)
                       EXCEPT !.existed = target[name].exists]
        /\ TargetFrame

TargetNext ==
    \E name \in ExNames :
        \/ BuildTarget(name)
        \/ DeleteAllTargetDirs(name)
        \/ Load(name)
        \/ Delete(name)

SpecTarget == TargetInit /\ [][TargetNext]_vars

\* C19: delete_all_target_dirs(name) returns Ok and changes nothing when the
\* experiment has no target directory; in every case the experiments on
\* disk and the canonical sources are as before, so load(name) returns the
\* same record before and after, and the target directories of the other
\* experiments are as before; when the removal succeeds the target
\* directory is gone.
C19_DeleteAllTargetDirs ==
    /\ [][last'.op = "delete_all_target_dirs" =>
            /\ disk' = disk /\ source' = source
            /\ load(disk', last'.name) = load(disk, last'.name)
            /\ \A n \in ExNames \ {last'.name} : target'[n] = target[n]
            /\ ~target[last'.name].exists => (last'.res = Ok(Unit) /\ target' = target)]_vars
    /\ []((last.op = "delete_all_target_dirs" /\ last.res.kind = "Ok") =>
             ~target[last.name].exists)

\* C19 witness: the target directory of e1 was removed while e2 kept its
\* own, and e1 still loads.
C19_Witness ==
    /\ last.op = "delete_all_target_dirs" /\ last.name = "e1"
    /\ last.existed /\ last.res.kind = "Ok"
    /\ ~target["e1"].exists /\ target["e2"].exists
    /\ load(disk, "e1").kind = "Ok"

====
